---- MODULE Spec2Model ----
(***************************************************************************)
(* A model of lib/llm/src/kv_router.rs: the construction of a KvRouter,    *)
(* the background task that forwards kv_events payloads to the indexer,    *)
(* and the request paths KvRouter::schedule, KvRouter::generate and        *)
(* KvPushRouter::generate.                                                 *)
(*                                                                         *)
(* The indexer, the scheduler, the metrics aggregator and the token block  *)
(* hasher live in sub-modules whose code is not part of kv_router.rs; they *)
(* are modelled from their documented contract.                            *)
(***************************************************************************)
EXTENDS Integers, Sequences, FiniteSets, TLC

\* ------------------------------------------------------------------------
\* Bounds and small input sets
\* ------------------------------------------------------------------------

\* Number of payloads the transport delivers on the kv_events subscription.
MaxEvents == 3

\* Capacity of the indexer's event channel (a bounded mpsc channel).
ChannelCap == 2

\* Worker (instance) ids of the fleet.
Workers == {1, 2}

\* The block hash space.
Hashes == {0, 1}

\* Token ids, and the longest request (in tokens).
TokenIds == {0, 1}
MaxTokens == 3

\* Block sizes a router is constructed with.
BlockSizes == {1, 2}

\* The seed of TokenBlockSequence::split_tokens in find_best_match.
Seed == 1337

\* An indexer that hashes raw tokens with a seed of its own.
IndexerSeed_Other == Seed + 1

\* The seed the indexer hashes raw tokens with (find_matches_for_request).
IndexerSeed == 1337

\* KvRouterConfig::default()
overlap_score_weight == 1
gpu_cache_usage_weight == 1
waiting_requests_weight == 1

\* The defaults the field documentation of KvRouterConfig states.
documented_overlap_score_weight == 2
documented_gpu_cache_usage_weight == 1
documented_waiting_requests_weight == 1

\* Weights a caller passes to KvRouterConfig::new (1 stands for 1.0).
WeightValues == {0, 2, 3}

\* ------------------------------------------------------------------------
\* RouterEvent and its wire form
\* ------------------------------------------------------------------------

\* A RouterEvent: a worker's cache mutation over a set of block hashes.
RouterEvent(w, op, hs) == [worker_id |-> w, op |-> op, hashes |-> hs]

\* serde_json::from_slice::<RouterEvent>(&event.payload): a payload is a
\* sequence of numbers <<worker, opcode, hash, ...>> (opcode 0 stores, 1
\* removes); it decodes only when it
\* has a worker id, a known opcode and hashes of the hash space.
Decode(p) ==
    IF /\ Len(p) >= 2
       /\ p[1] \in Workers
       /\ p[2] \in {0, 1}
       /\ \A i \in 3..Len(p) : p[i] \in Hashes
    THEN [ok |-> TRUE,
          event |-> RouterEvent(p[1],
                                IF p[2] = 0 THEN "stored" ELSE "removed",
                                {p[i] : i \in 3..Len(p)})]
    ELSE [ok |-> FALSE,
          event |-> RouterEvent(0, "none", {})]

\* The payloads the workers publish: three well-formed events (two of worker
\* 1, one of worker 2), a truncated payload and one with an unknown opcode.
SamplePayloads ==
    { <<1, 0, 0, 1>>, <<1, 1, 1>>, <<2, 0, 0>>, <<1>>, <<2, 7, 0>> }

\* ------------------------------------------------------------------------
\* State
\* ------------------------------------------------------------------------

VARIABLES
    has_lease,      \* component.drt().primary_lease() is Some
    ctorPc,         \* position of KvRouter::new
    made,           \* what KvRouter::new has created so far
    cancelled,      \* the primary lease's cancellation token
    aggTask,        \* the metrics aggregator's background task
    idxTask,        \* the indexer's background task (owns the channel receiver)
    taskPc,         \* the spawned event-forwarding task
    event,          \* the forwarding task's decoded `event`
    kv_events_rx,   \* payloads buffered on the subscription
    subClosed,      \* the subscription stream has ended
    published,      \* number of payloads delivered so far
    recvLog,        \* payloads kv_events_rx.next() has yielded, in order
    sendLog,        \* calls of kv_events_tx.send: [idx, event, ok]
    kv_events_tx,   \* the indexer's event channel: [idx, event] in flight
    appliedLog,     \* what the indexer task has taken from the channel
    warns,          \* tracing::warn! lines of the forwarding task
    debugs,         \* tracing::debug! lines of the forwarding task
    index,          \* the indexer's worker -> cached block hashes view
    block_size,     \* KvRouter.block_size
    selector,       \* the WorkerSelector the scheduler was started with
    endpoints,      \* the aggregator's latest ProcessedEndpoints snapshot
    req,            \* the request being served, with what was done for it
    weight_args,    \* the three Option<f64> arguments of KvRouterConfig::new
    config,         \* the KvRouterConfig that was built from them, if any
    prev            \* the last finished call, kept to compare the next one with

ctorVars == << has_lease, ctorPc, made >>
envVars == << cancelled, kv_events_rx, subClosed, published >>
taskVars == << taskPc, event, recvLog, sendLog, warns, debugs >>
idxVars == << aggTask, idxTask, kv_events_tx, appliedLog, index >>

cfgVars == << block_size, selector >>
routeVars == << endpoints, req >>

auxVars == << weight_args, config, prev >>

vars == << ctorVars, envVars, taskVars, idxVars, cfgVars, routeVars, auxVars >>

\* ------------------------------------------------------------------------
\* Token blocks, the indexer's lookup and the scheduler's selection
\* ------------------------------------------------------------------------

\* Token sequences of at most MaxTokens tokens.
TokenSeqs == UNION { [1..n -> TokenIds] : n \in 0..MaxTokens }

RECURSIVE SumSeq(_)
SumSeq(s) == IF s = << >> THEN 0 ELSE Head(s) + SumSeq(Tail(s))

\* The hash of one complete block: a function of the block's tokens and the
\* seed alone, not of the block's position in the sequence.
BlockHash(block, seed) ==
    (seed + SumSeq([i \in 1..Len(block) |-> i * (block[i] + 1)]))
        % Cardinality(Hashes)

\* A split that also hashes the trailing partial block.
BlockHashes_WithPartial(tokens, bs, seed) ==
    [k \in 1..((Len(tokens) + bs - 1) \div bs) |->
        BlockHash(SubSeq(tokens, (k - 1) * bs + 1,
                         IF k * bs <= Len(tokens) THEN k * bs ELSE Len(tokens)),
                  seed)]

\* TokenBlockSequence::split_tokens(tokens, block_size, seed).0 mapped to
\* LocalBlockHash(block.block_hash()): one hash per complete block, in order.
BlockHashes(tokens, bs, seed) ==
    [k \in 1..(Len(tokens) \div bs) |->
        BlockHash(SubSeq(tokens, (k - 1) * bs + 1, k * bs), seed)]

\* A count of every query hash the worker holds, wherever it stands.
PrefixMatch_CountAll(cached, hashes) ==
    Cardinality({i \in 1..Len(hashes) : hashes[i] \in cached})

\* The length of the longest prefix of the query whose hashes a worker holds.
PrefixMatch(cached, hashes) ==
    LET hit == {k \in 0..Len(hashes) : \A i \in 1..k : hashes[i] \in cached}
    IN  CHOOSE k \in hit : \A j \in hit : j <= k

\* KvIndexer::find_matches: the overlap map holds the workers that match at
\* least the first block of the query.
FindMatches(idx, hashes) ==
    LET hitters == {w \in Workers : PrefixMatch(idx[w], hashes) > 0}
    IN  [w \in hitters |-> PrefixMatch(idx[w], hashes)]

\* Worker selectors: the default weighted policy or one supplied by the
\* caller. A selector is a policy, a function of the snapshot and the request:
\* one caller's policy takes the last worker of the snapshot, another takes
\* the first worker that has the request's prefix cached and rejects the
\* request when there is none.
Selectors == {"default", "custom_last", "custom_strict"}

\* A ProcessedEndpoints snapshot maps each known worker to its load metrics.
Metrics(g, q) == [gpu_cache_usage |-> g, num_requests_waiting |-> q]

NoEndpoints == [w \in {} |-> Metrics(0, 0)]

\* The snapshots the aggregator publishes: no worker yet, one worker, both
\* idle, and worker 1 loaded while worker 2 is idle.
SampleEndpoints ==
    { NoEndpoints,
      [w \in {1} |-> Metrics(0, 0)],
      [w \in {1, 2} |-> Metrics(0, 0)],
      [w \in {1, 2} |-> IF w = 1 THEN Metrics(1, 1) ELSE Metrics(0, 0)] }

OverlapOf(scores, w) == IF w \in DOMAIN scores THEN scores[w] ELSE 0

\* The default policy's score of a worker, scaled by the request's number of
\* blocks so that it stays an integer: the overlap fraction weighs for the
\* worker, its cache usage and its queue against it. A worker absent from
\* the overlap map scores as zero overlap.
DefaultScore(eps, scores, isl, bs, w) ==
    LET blocks == IF isl < bs THEN 1 ELSE (isl + bs - 1) \div bs
    IN  overlap_score_weight * OverlapOf(scores, w)
          - blocks * ( gpu_cache_usage_weight * eps[w].gpu_cache_usage
                     + waiting_requests_weight * eps[w].num_requests_waiting )

\* The default policy's choice: the best score, the lowest id among equals.
DefaultSelect(eps, scores, isl, bs) ==
    LET best == {w \in DOMAIN eps :
                   \A v \in DOMAIN eps :
                       DefaultScore(eps, scores, isl, bs, v)
                         <= DefaultScore(eps, scores, isl, bs, w)}
    IN  CHOOSE w \in best : \A v \in best : w <= v

SchedOk(w) == [ok |-> TRUE, worker |-> w, error |-> "none"]
SchedErr(e) == [ok |-> FALSE, worker |-> 0, error |-> e]

\* The caller's policies.
CustomSelect(eps, sel, scores) ==
    LET known == DOMAIN eps
        hitters == known \cap DOMAIN scores
    IN  IF sel = "custom_last"
        THEN SchedOk(CHOOSE w \in known : \A v \in known : v <= w)
        ELSE IF hitters = {}
        THEN SchedErr("selector")
        ELSE SchedOk(CHOOSE w \in hitters : \A v \in hitters : w <= v)

\* A scheduler that takes turns: with several workers known it avoids the
\* worker the call before was given.
SchedulerOutcomes_TakingTurns(eps, sel, scores, isl, bs) ==
    LET others == DOMAIN eps \ {prev.worker_id}
    IN  IF DOMAIN eps = {}
        THEN { SchedErr("NoEndpoints") }
        ELSE IF others = {}
        THEN { SchedOk(w) : w \in DOMAIN eps }
        ELSE { SchedOk(CHOOSE w \in others : \A v \in others : w <= v) }

\* KvScheduler::schedule(overlap_scores, isl_tokens): what it answers. It
\* fails when no worker is known or when the selector fails.
SchedulerOutcomes(eps, sel, scores, isl, bs) ==
    IF DOMAIN eps = {}
    THEN { SchedErr("NoEndpoints") }
    ELSE IF sel = "default"
         THEN { SchedOk(DefaultSelect(eps, scores, isl, bs)) }
         ELSE { CustomSelect(eps, sel, scores) }

\* ------------------------------------------------------------------------
\* Requests
\* ------------------------------------------------------------------------

\* The entry points: KvRouter::schedule, KvRouter::generate and
\* KvPushRouter::generate.
Apis == {"schedule", "generate", "push"}

\* InstanceSource of the push router's client.
InstanceSources == {"Static", "Dynamic"}

\* A PreprocessedRequest: its tokens, the optional estimate (the empty set is
\* None, {n} is Some(n)) and the fields the router does not look at.
PreprocessedRequest(tokens) ==
    [token_ids |-> tokens, estimated_prefix_hit_num_blocks |-> {}, rest |-> "sampling"]

NoReq ==
    [api |-> "none", instance_source |-> "none", pc |-> "idle",
     request |-> PreprocessedRequest(<< >>), context |-> "none",
     submitted |-> PreprocessedRequest(<< >>),
     hashes |-> << >>, indexerCalls |-> 0, overlap_scores |-> << >>,
     schedCalls |-> << >>, worker_id |-> 0, result |-> "none",
     dispatches |-> << >>, stream |-> << >>, yielded |-> << >>,
     streamEnded |-> FALSE]

NewReq(api, src, tokens) ==
    [NoReq EXCEPT !.api = api, !.instance_source = src, !.pc = "start",
                  !.request = PreprocessedRequest(tokens), !.context = "ctx",
                  !.submitted = PreprocessedRequest(tokens)]

\* ------------------------------------------------------------------------
\* KvRouterConfig
\* ------------------------------------------------------------------------

\* An Option<f64>: the empty set is None, {v} is Some(v).
WeightOptions == { {} } \cup { {v} : v \in WeightValues }

WeightArgs == [overlap : WeightOptions, gpu : WeightOptions, waiting : WeightOptions]

NoWeightArgs == [overlap |-> {}, gpu |-> {}, waiting |-> {}]

\* Option::unwrap_or
UnwrapOr(opt, default) == IF opt = {} THEN default ELSE CHOOSE v \in opt : TRUE

\* impl Default for KvRouterConfig
KvRouterConfigDefault ==
    [overlap_score_weight |-> overlap_score_weight,
     gpu_cache_usage_weight |-> gpu_cache_usage_weight,
     waiting_requests_weight |-> waiting_requests_weight]

\* A constructor that falls back to the whole default configuration as soon
\* as one weight is unset.
KvRouterConfigNew_AllOrNothing(overlap, gpu, waiting) ==
    IF {} \in {overlap, gpu, waiting}
    THEN KvRouterConfigDefault
    ELSE [overlap_score_weight |-> UnwrapOr(overlap, 0),
          gpu_cache_usage_weight |-> UnwrapOr(gpu, 0),
          waiting_requests_weight |-> UnwrapOr(waiting, 0)]

\* KvRouterConfig::new
KvRouterConfigNew(overlap, gpu, waiting) ==
    LET default == KvRouterConfigDefault
    IN  [overlap_score_weight |-> UnwrapOr(overlap, default.overlap_score_weight),
         gpu_cache_usage_weight |-> UnwrapOr(gpu, default.gpu_cache_usage_weight),
         waiting_requests_weight |->
             UnwrapOr(waiting, default.waiting_requests_weight)]

NoConfig == [via |-> "none", weights |-> KvRouterConfigDefault]

\* What is kept of a finished call.
NoPrev ==
    [api |-> "none", instance_source |-> "none", tokens |-> << >>,
     hashes |-> << >>, schedCalls |-> << >>, worker_id |-> 0, estimate |-> {}]

NoEvent == RouterEvent(0, "none", {})

EmptyIndex == [w \in Workers |-> {}]

Init ==
    /\ has_lease \in BOOLEAN
    /\ ctorPc = "start"
    /\ made = {}
    /\ cancelled = FALSE
    /\ aggTask = "none"
    /\ idxTask = "none"
    /\ taskPc = "none"
    /\ event = NoEvent
    /\ kv_events_rx = << >>
    /\ subClosed = FALSE
    /\ published = 0
    /\ recvLog = << >>
    /\ sendLog = << >>
    /\ kv_events_tx = << >>
    /\ appliedLog = << >>
    /\ warns = 0
    /\ debugs = 0
    /\ index = EmptyIndex
    /\ block_size \in BlockSizes
    /\ selector \in Selectors
    /\ endpoints = NoEndpoints
    /\ req = NoReq
    /\ weight_args = NoWeightArgs
    /\ config = NoConfig
    /\ prev = NoPrev

\* ------------------------------------------------------------------------
\* KvRouter::new
\* ------------------------------------------------------------------------

\* primary_lease().expect(..) with the check dropped: construction goes on
\* without a lease.
LeaseCheck_Unchecked(lease) == "lease"

\* .primary_lease().expect("Cannot KV route static workers"): panics when the
\* runtime has no primary lease.
LeaseCheck(lease) == IF lease THEN "lease" ELSE "panicked"

NewLease ==
    /\ ctorPc = "start"
    /\ ctorPc' = LeaseCheck(has_lease)
    /\ UNCHANGED << cfgVars, auxVars, routeVars, has_lease, made, envVars, taskVars, idxVars >>

\* KvMetricsAggregator::new(component.clone(), cancellation_token.clone())
NewAggregator ==
    /\ ctorPc = "lease"
    /\ ctorPc' = "aggregator"
    /\ made' = made \cup {"metrics_aggregator"}
    /\ aggTask' = "running"
    /\ UNCHANGED << cfgVars, auxVars, routeVars, has_lease, envVars, taskVars, idxTask, kv_events_tx, appliedLog, index >>

\* KvIndexer::new(cancellation_token.clone(), block_size)
NewIndexer ==
    /\ ctorPc = "aggregator"
    /\ ctorPc' = "indexer"
    /\ made' = made \cup {"indexer"}
    /\ idxTask' = "running"
    /\ UNCHANGED << cfgVars, auxVars, routeVars, has_lease, envVars, taskVars, aggTask, kv_events_tx, appliedLog, index >>

\* KvScheduler::start(..).await? : an error returns from new.
NewScheduler ==
    /\ ctorPc = "indexer"
    /\ \E ok \in BOOLEAN :
         IF ok
         THEN /\ ctorPc' = "scheduler"
              /\ made' = made \cup {"scheduler"}
         ELSE /\ ctorPc' = "failed"
              /\ made' = made
    /\ UNCHANGED << cfgVars, auxVars, routeVars, has_lease, envVars, taskVars, idxVars >>

\* component.subscribe(KV_EVENT_SUBJECT).await? : an error returns from new.
NewSubscribe ==
    /\ ctorPc = "scheduler"
    /\ \E ok \in BOOLEAN :
         IF ok
         THEN /\ ctorPc' = "subscribed"
              /\ made' = made \cup {"subscription"}
         ELSE /\ ctorPc' = "failed"
              /\ made' = made
    /\ UNCHANGED << cfgVars, auxVars, routeVars, has_lease, envVars, taskVars, idxVars >>

\* tokio::spawn(async move { .. }); Ok(Self { scheduler, indexer, block_size })
NewSpawn ==
    /\ ctorPc = "subscribed"
    /\ ctorPc' = "ready"
    /\ made' = made \cup {"forward_task"}
    /\ taskPc' = "recv"
    /\ UNCHANGED << cfgVars, auxVars, routeVars, has_lease, envVars, event, recvLog, sendLog, warns, debugs, idxVars >>

\* ------------------------------------------------------------------------
\* The environment: the transport and the lease
\* ------------------------------------------------------------------------

SubscriptionOpen == "subscription" \in made /\ ~subClosed

\* The transport delivers one more payload on the kv_events subject.
Publish ==
    /\ SubscriptionOpen
    /\ published < MaxEvents
    /\ \E p \in SamplePayloads : kv_events_rx' = Append(kv_events_rx, p)
    /\ published' = published + 1
    /\ UNCHANGED << cfgVars, auxVars, routeVars, ctorVars, cancelled, subClosed, taskVars, idxVars >>

\* The transport ends the subscription stream.
CloseSubscription ==
    /\ SubscriptionOpen
    /\ subClosed' = TRUE
    /\ UNCHANGED << cfgVars, auxVars, routeVars, ctorVars, cancelled, kv_events_rx, published, taskVars, idxVars >>

\* The primary lease's token is cancelled.
Cancel ==
    /\ has_lease
    /\ ~cancelled
    /\ cancelled' = TRUE
    /\ UNCHANGED << cfgVars, auxVars, routeVars, ctorVars, kv_events_rx, subClosed, published, taskVars, idxVars >>

\* ------------------------------------------------------------------------
\* The indexer and the metrics aggregator (background tasks holding the token)
\* ------------------------------------------------------------------------

\* Applying one RouterEvent to the index: a store adds the hashes to the
\* worker's set, a remove discards them.
ApplyEvent(idx, e) ==
    [idx EXCEPT ![e.worker_id] =
        IF e.op = "stored" THEN @ \cup e.hashes ELSE @ \ e.hashes]

\* The indexer task takes the next event from its channel and applies it.
IndexerApply ==
    /\ idxTask = "running"
    /\ kv_events_tx # << >>
    /\ index' = ApplyEvent(index, Head(kv_events_tx).event)
    /\ appliedLog' = Append(appliedLog, Head(kv_events_tx))
    /\ kv_events_tx' = Tail(kv_events_tx)
    /\ UNCHANGED << cfgVars, auxVars, routeVars, ctorVars, envVars, taskVars, aggTask, idxTask >>

\* The indexer task sees the cancellation and exits; the channel's receiver
\* is dropped with whatever it still buffered.
IndexerExit ==
    /\ idxTask = "running"
    /\ cancelled
    /\ idxTask' = "exited"
    /\ kv_events_tx' = << >>
    /\ UNCHANGED << cfgVars, auxVars, routeVars, ctorVars, envVars, taskVars, aggTask, appliedLog, index >>

\* The metrics aggregator's task sees the cancellation and exits.
AggregatorExit ==
    /\ aggTask = "running"
    /\ cancelled
    /\ aggTask' = "exited"
    /\ UNCHANGED << cfgVars, auxVars, routeVars, ctorVars, envVars, taskVars, idxTask, kv_events_tx, appliedLog, index >>

\* ------------------------------------------------------------------------
\* The event-forwarding task spawned by KvRouter::new
\* ------------------------------------------------------------------------

\* A decode error that ends the loop instead of continuing it.
OnDecodeError_Break == "exited"

\* Err(e) => { tracing::warn!(..); continue; }
OnDecodeError == "recv"

\* A send error that is unwrapped: the task panics.
OnSendError_Panic == "panicked"

\* if let Err(e) = kv_events_tx.send(event).await { tracing::debug!(..) }:
\* the loop goes on to the next event.
OnSendError == "recv"

\* A channel that hands the newest event over first.
ChannelSend_Lifo(chan, item) == << item >> \o chan

\* kv_events_tx.send(event): the channel is first-in first-out.
ChannelSend(chan, item) == Append(chan, item)

\* kv_events_rx.next().await yields Some(event); the payload is decoded.
TaskRecv ==
    /\ taskPc = "recv"
    /\ kv_events_rx # << >>
    /\ LET p == Head(kv_events_rx)
           d == Decode(p)
       IN  /\ recvLog' = Append(recvLog, p)
           /\ IF d.ok
              THEN /\ event' = d.event
                   /\ taskPc' = "send"
                   /\ warns' = warns
              ELSE /\ event' = NoEvent
                   /\ taskPc' = OnDecodeError
                   /\ warns' = warns + 1
    /\ kv_events_rx' = Tail(kv_events_rx)
    /\ UNCHANGED << cfgVars, auxVars, routeVars, ctorVars, cancelled, subClosed, published, sendLog, debugs, idxVars >>

\* kv_events_rx.next().await yields None: the while-let loop ends.
TaskEnd ==
    /\ taskPc = "recv"
    /\ kv_events_rx = << >>
    /\ subClosed
    /\ taskPc' = "exited"
    /\ UNCHANGED << cfgVars, auxVars, routeVars, ctorVars, envVars, event, recvLog, sendLog, warns, debugs, idxVars >>

\* kv_events_tx.send(event).await: Ok when the receiver lives (waiting while
\* the channel is full), Err once the indexer task has dropped it.
TaskSend ==
    /\ taskPc = "send"
    /\ IF idxTask = "running"
       THEN /\ Len(kv_events_tx) < ChannelCap
            /\ kv_events_tx' =
                   ChannelSend(kv_events_tx, [idx |-> Len(recvLog), event |-> event])
            /\ sendLog' =
                   Append(sendLog, [idx |-> Len(recvLog), event |-> event, ok |-> TRUE])
            /\ taskPc' = "recv"
            /\ debugs' = debugs
       ELSE /\ kv_events_tx' = kv_events_tx
            /\ sendLog' =
                   Append(sendLog, [idx |-> Len(recvLog), event |-> event, ok |-> FALSE])
            /\ taskPc' = OnSendError
            /\ debugs' = debugs + 1
    /\ event' = NoEvent
    /\ UNCHANGED << cfgVars, auxVars, routeVars, ctorVars, envVars, recvLog, warns, aggTask, idxTask, appliedLog, index >>

\* ------------------------------------------------------------------------
\* Specification of construction and event ingestion
\* ------------------------------------------------------------------------

Next ==
    \/ NewLease
    \/ NewAggregator
    \/ NewIndexer
    \/ NewScheduler
    \/ NewSubscribe
    \/ NewSpawn
    \/ Publish
    \/ CloseSubscription
    \/ Cancel
    \/ IndexerApply
    \/ IndexerExit
    \/ AggregatorExit
    \/ TaskRecv
    \/ TaskEnd
    \/ TaskSend

Spec == Init /\ [][Next]_vars

\* ------------------------------------------------------------------------
\* The request paths
\* ------------------------------------------------------------------------

\* A push router that takes the KV-aware path whatever its instance source.
PushPath_AlwaysKv(src) == "kv"

\* match self.inner.client.instance_source.as_ref()
PushPath(src) == IF src = "Static" THEN "static" ELSE "kv"

\* The best overlap of the map instead of the selected worker's.
OverlapAmount_Best(scores, worker_id) ==
    IF DOMAIN scores = {}
    THEN 0
    ELSE CHOOSE n \in {scores[w] : w \in DOMAIN scores} :
             \A w \in DOMAIN scores : scores[w] <= n

\* The overlap counted in tokens instead of blocks.
OverlapAmount_InTokens(scores, worker_id) ==
    IF worker_id \in DOMAIN scores THEN scores[worker_id] * block_size ELSE 0

\* overlap_scores.scores.get(&worker_id).copied().unwrap_or(0)
OverlapAmount(scores, worker_id) ==
    IF worker_id \in DOMAIN scores THEN scores[worker_id] ELSE 0

\* A scheduler failure answered with a default worker.
Propagate_Fallback(out) == IF out.ok THEN out ELSE SchedOk(1)

\* self.scheduler.schedule(..).await? : an error is the caller's result.
Propagate(out) == out

\* A response stream built without its item.
ResponseItems_Empty(worker_id) == << >>

\* stream::iter(vec![Annotated::from_data(RouterResponse { worker_id })])
ResponseItems(worker_id) == << [worker_id |-> worker_id] >>

\* A dynamic-mode dispatch that goes through the static path.
DirectCall_Static(backend_input, context, instance_id) ==
    [path |-> "static", instance_id |-> 0,
     request |-> backend_input, context |-> context]

\* self.inner.direct(updated_request, instance_id)
DirectCall(backend_input, context, instance_id) ==
    [path |-> "direct", instance_id |-> instance_id,
     request |-> backend_input, context |-> context]

\* self.inner.r#static(request)
StaticCall(backend_input, context) ==
    [path |-> "static", instance_id |-> 0,
     request |-> backend_input, context |-> context]

\* A stamp that also cuts the token ids down to the complete blocks.
Stamp_CompleteBlocksOnly(backend_input, overlap_amount) ==
    [backend_input EXCEPT
        !.estimated_prefix_hit_num_blocks = {overlap_amount},
        !.token_ids = SubSeq(@, 1, (Len(@) \div block_size) * block_size)]

\* backend_input.estimated_prefix_hit_num_blocks = Some(overlap_amount)
Stamp(backend_input, overlap_amount) ==
    [backend_input EXCEPT !.estimated_prefix_hit_num_blocks = {overlap_amount}]

\* A caller invokes one of the entry points with a token sequence.
StartRequest ==
    /\ ctorPc = "ready"
    /\ req.pc = "idle"
    /\ \E api \in Apis, tokens \in TokenSeqs :
         \E src \in (IF api = "push" THEN InstanceSources ELSE {"none"}) :
             req' = NewReq(api, src, tokens)
    /\ UNCHANGED << ctorVars, envVars, taskVars, idxVars, cfgVars, auxVars, endpoints >>

\* KvPushRouter::generate, InstanceSource::Static arm.
PushStatic ==
    /\ req.pc = "start"
    /\ req.api = "push"
    /\ PushPath(req.instance_source) = "static"
    /\ req' = [req EXCEPT !.pc = "dispatching",
                          !.dispatches = << StaticCall(req.request, req.context) >>]
    /\ UNCHANGED << ctorVars, envVars, taskVars, idxVars, cfgVars, auxVars, endpoints >>

\* A query that leaves its hashes behind in the index, as cached by worker 1.
QueryIndexer_Recording ==
    /\ req.pc = "start"
    /\ req.api = "push" => PushPath(req.instance_source) = "kv"
    /\ idxTask = "running"
    /\ LET hashes == BlockHashes(req.request.token_ids, block_size, Seed)
       IN  /\ req' = [req EXCEPT !.pc = "matched",
                                  !.hashes = hashes,
                                  !.indexerCalls = @ + 1,
                                  !.overlap_scores = FindMatches(index, hashes)]
           /\ index' = ApplyEvent(index,
                                  RouterEvent(1, "stored",
                                              {hashes[i] : i \in 1..Len(hashes)}))
    /\ UNCHANGED << ctorVars, envVars, taskVars, aggTask, idxTask, kv_events_tx,
                    appliedLog, cfgVars, auxVars, endpoints >>

\* The indexer query of KvRouter::schedule (find_matches_for_request on the
\* raw tokens) and of find_best_match (find_matches on the block hashes).
\* It fails once the indexer task has gone.
QueryIndexer ==
    /\ req.pc = "start"
    /\ req.api = "push" => PushPath(req.instance_source) = "kv"
    /\ LET tokens == req.request.token_ids
           hashes == IF req.api = "schedule"
                     THEN BlockHashes(tokens, block_size, IndexerSeed)
                     ELSE BlockHashes(tokens, block_size, Seed)
       IN  IF idxTask = "running"
           THEN req' = [req EXCEPT !.pc = "matched",
                                   !.hashes = hashes,
                                   !.indexerCalls = @ + 1,
                                   !.overlap_scores = FindMatches(index, hashes)]
           ELSE req' = [req EXCEPT !.pc = "done",
                                   !.hashes = hashes,
                                   !.indexerCalls = @ + 1,
                                   !.result = "Err:indexer"]
    /\ UNCHANGED << ctorVars, envVars, taskVars, idxVars, cfgVars, auxVars, endpoints >>

\* self.scheduler.schedule(overlap_scores, isl_tokens).await? and what follows
\* it up to the next await: schedule returns the worker id, generate builds
\* the one-item stream, the push router stamps the request and calls direct.
Schedule ==
    /\ req.pc = "matched"
    /\ LET isl == Len(req.request.token_ids)
       IN  \E answer \in SchedulerOutcomes(endpoints, selector,
                                           req.overlap_scores, isl, block_size) :
             LET out == Propagate(answer)
                 call == [overlap_scores |-> req.overlap_scores,
                          isl_tokens |-> isl, answer |-> answer]
                 called == [req EXCEPT !.schedCalls = Append(@, call)]
             IN  IF ~out.ok
                 THEN req' = [called EXCEPT !.pc = "done",
                                            !.result = "Err:scheduler"]
                 ELSE IF req.api = "schedule"
                 THEN req' = [called EXCEPT !.pc = "done",
                                            !.worker_id = out.worker,
                                            !.result = "Ok"]
                 ELSE IF req.api = "generate"
                 THEN req' = [called EXCEPT !.pc = "done",
                                            !.worker_id = out.worker,
                                            !.stream = ResponseItems(out.worker),
                                            !.result = "Ok"]
                 ELSE LET overlap_amount ==
                              OverlapAmount(req.overlap_scores, out.worker)
                          backend_input == Stamp(req.request, overlap_amount)
                      IN  req' = [called EXCEPT
                                    !.pc = "dispatching",
                                    !.worker_id = out.worker,
                                    !.request = backend_input,
                                    !.dispatches =
                                        << DirectCall(backend_input, req.context,
                                                      out.worker) >>]
    /\ UNCHANGED << ctorVars, envVars, taskVars, idxVars, cfgVars, auxVars, endpoints >>

\* The dispatch layer answers: its result is the push router's result.
DispatchReturn ==
    /\ req.pc = "dispatching"
    /\ \E ok \in BOOLEAN :
         req' = [req EXCEPT !.pc = "done",
                            !.result = IF ok THEN "Ok" ELSE "Err:dispatch"]
    /\ UNCHANGED << ctorVars, envVars, taskVars, idxVars, cfgVars, auxVars, endpoints >>

\* The caller polls the response stream of KvRouter::generate.
StreamPoll ==
    /\ req.pc = "done"
    /\ req.api = "generate"
    /\ req.result = "Ok"
    /\ ~req.streamEnded
    /\ IF req.stream # << >>
       THEN req' = [req EXCEPT !.yielded = Append(@, Head(req.stream)),
                               !.stream = Tail(@)]
       ELSE req' = [req EXCEPT !.streamEnded = TRUE]
    /\ UNCHANGED << ctorVars, envVars, taskVars, idxVars, cfgVars, auxVars, endpoints >>

\* The caller is done with the result (and the stream) of its request.
DropResult ==
    /\ req.pc = "done"
    /\ req' = NoReq
    /\ UNCHANGED << ctorVars, envVars, taskVars, idxVars, cfgVars, auxVars, endpoints >>

\* ------------------------------------------------------------------------
\* The environment of the request paths
\* ------------------------------------------------------------------------

\* A well-formed cache event travels the whole ingestion path (subscription,
\* forwarding task, channel) and the indexer applies it.
IngestEvent ==
    /\ idxTask = "running"
    /\ \E p \in SamplePayloads :
         /\ Decode(p).ok
         /\ index' = ApplyEvent(index, Decode(p).event)
         /\ index' # index
    /\ UNCHANGED << ctorVars, envVars, taskVars, aggTask, idxTask, kv_events_tx,
                    appliedLog, cfgVars, auxVars, routeVars >>

\* The metrics aggregator replaces its snapshot of the fleet.
MetricsUpdate ==
    /\ aggTask = "running"
    /\ \E snapshot \in SampleEndpoints :
         /\ snapshot # endpoints
         /\ endpoints' = snapshot
    /\ UNCHANGED << ctorVars, envVars, taskVars, idxVars, cfgVars, auxVars, req >>

\* ------------------------------------------------------------------------
\* Specification of the request paths, from a constructed router
\* ------------------------------------------------------------------------

RouteInit ==
    /\ has_lease = TRUE
    /\ ctorPc = "ready"
    /\ made = {"metrics_aggregator", "indexer", "scheduler", "subscription",
               "forward_task"}
    /\ cancelled = FALSE
    /\ aggTask = "running"
    /\ idxTask = "running"
    /\ taskPc = "recv"
    /\ event = NoEvent
    /\ kv_events_rx = << >>
    /\ subClosed = FALSE
    /\ published = 0
    /\ recvLog = << >>
    /\ sendLog = << >>
    /\ kv_events_tx = << >>
    /\ appliedLog = << >>
    /\ warns = 0
    /\ debugs = 0
    /\ index = EmptyIndex
    /\ block_size \in BlockSizes
    /\ selector \in Selectors
    /\ endpoints = NoEndpoints
    /\ req = NoReq
    /\ weight_args = NoWeightArgs
    /\ config = NoConfig
    /\ prev = NoPrev

RouteNext ==
    \/ StartRequest
    \/ PushStatic
    \/ QueryIndexer
    \/ Schedule
    \/ DispatchReturn
    \/ StreamPoll
    \/ DropResult
    \/ IngestEvent
    \/ MetricsUpdate
    \/ Cancel
    \/ IndexerExit
    \/ AggregatorExit

RouteSpec == RouteInit /\ [][RouteNext]_vars

\* ------------------------------------------------------------------------
\* Specification of repeated calls: the same tokens are routed again, by any
\* entry point, while the index and the snapshot stay as they are
\* ------------------------------------------------------------------------

\* What find_best_match returns as overlap amount, when it returns Ok.
FoundOverlap(r) ==
    IF r.schedCalls # << >> /\ r.schedCalls[1].answer.ok
    THEN { OverlapAmount(r.overlap_scores, r.schedCalls[1].answer.worker) }
    ELSE {}

\* What is kept of a call that has returned.
Finished(r) ==
    [api |-> r.api, instance_source |-> r.instance_source,
     tokens |-> r.request.token_ids, hashes |-> r.hashes,
     schedCalls |-> r.schedCalls, worker_id |-> r.worker_id,
     estimate |-> FoundOverlap(r)]

\* The next call: once a call has returned, the same tokens again.
PairStart ==
    /\ StartRequest
    /\ prev.api # "none" => req'.request.token_ids = prev.tokens

\* The call has returned; it is the one the next call is compared with.
PairRemember ==
    /\ req.pc = "done"
    /\ prev' = Finished(req)
    /\ req' = NoReq
    /\ UNCHANGED << ctorVars, envVars, taskVars, idxVars, cfgVars, endpoints,
                    weight_args, config >>

\* Between calls the indexer applies a cache event: what follows is routed
\* against another index state.
PairIngest ==
    /\ req.pc = "idle"
    /\ idxTask = "running"
    /\ \E p \in SamplePayloads :
         /\ Decode(p).ok
         /\ index' = ApplyEvent(index, Decode(p).event)
         /\ index' # index
    /\ prev' = NoPrev
    /\ UNCHANGED << ctorVars, envVars, taskVars, aggTask, idxTask, kv_events_tx,
                    appliedLog, cfgVars, routeVars, weight_args, config >>

\* Between calls the aggregator replaces its snapshot.
PairMetrics ==
    /\ req.pc = "idle"
    /\ aggTask = "running"
    /\ \E snapshot \in SampleEndpoints :
         /\ snapshot # endpoints
         /\ endpoints' = snapshot
    /\ prev' = NoPrev
    /\ UNCHANGED << ctorVars, envVars, taskVars, idxVars, cfgVars, req,
                    weight_args, config >>

PairNext ==
    \/ PairStart
    \/ PushStatic
    \/ QueryIndexer
    \/ Schedule
    \/ DispatchReturn
    \/ StreamPoll
    \/ PairRemember
    \/ PairIngest
    \/ PairMetrics

PairSpec == RouteInit /\ [][PairNext]_vars

\* ------------------------------------------------------------------------
\* Specification of KvRouterConfig: any arguments, then new or default
\* ------------------------------------------------------------------------

\* KvRouterConfig::new(overlap, gpu, waiting) is called.
ConfigNew ==
    /\ config.via = "none"
    /\ config' = [via |-> "new",
                  weights |-> KvRouterConfigNew(weight_args.overlap,
                                                weight_args.gpu,
                                                weight_args.waiting)]
    /\ UNCHANGED << ctorVars, envVars, taskVars, idxVars, cfgVars, routeVars,
                    weight_args, prev >>

\* KvRouterConfig::default() is called.
ConfigDefault ==
    /\ config.via = "none"
    /\ config' = [via |-> "default", weights |-> KvRouterConfigDefault]
    /\ UNCHANGED << ctorVars, envVars, taskVars, idxVars, cfgVars, routeVars,
                    weight_args, prev >>

ConfigInit ==
    /\ has_lease = TRUE
    /\ ctorPc = "start"
    /\ made = {}
    /\ cancelled = FALSE
    /\ aggTask = "none"
    /\ idxTask = "none"
    /\ taskPc = "none"
    /\ event = NoEvent
    /\ kv_events_rx = << >>
    /\ subClosed = FALSE
    /\ published = 0
    /\ recvLog = << >>
    /\ sendLog = << >>
    /\ kv_events_tx = << >>
    /\ appliedLog = << >>
    /\ warns = 0
    /\ debugs = 0
    /\ index = EmptyIndex
    /\ block_size \in BlockSizes
    /\ selector \in Selectors
    /\ endpoints = NoEndpoints
    /\ req = NoReq
    /\ weight_args \in WeightArgs
    /\ config = NoConfig
    /\ prev = NoPrev

ConfigNext ==
    \/ ConfigNew
    \/ ConfigDefault

ConfigSpec == ConfigInit /\ [][ConfigNext]_vars

\* Construction and ingestion under the runtime's scheduling: a task that can
\* take a step eventually takes it. The transport and the lease holder owe
\* nothing: payloads, the end of the stream and the cancellation may or may
\* not come.
FairSpec ==
    /\ Spec
    /\ WF_vars(NewLease)
    /\ WF_vars(NewAggregator)
    /\ WF_vars(NewIndexer)
    /\ WF_vars(NewScheduler)
    /\ WF_vars(NewSubscribe)
    /\ WF_vars(NewSpawn)
    /\ WF_vars(IndexerApply)
    /\ WF_vars(IndexerExit)
    /\ WF_vars(AggregatorExit)
    /\ WF_vars(TaskRecv)
    /\ WF_vars(TaskEnd)
    /\ WF_vars(TaskSend)

\* ------------------------------------------------------------------------
\* Properties
\* ------------------------------------------------------------------------

IsPush(src) == req.api = "push" /\ req.instance_source = src

\* C1: a request that reaches a push router whose instance source is Static
\* never queries the indexer, never calls the scheduler, is never stamped
\* with estimated_prefix_hit_num_blocks, and is dispatched through the static
\* path only, whatever the index and the endpoints hold.
C1_StaticBypassesKv ==
    IsPush("Static") =>
        /\ req.indexerCalls = 0
        /\ req.schedCalls = << >>
        /\ req.hashes = << >>
        /\ req.request.estimated_prefix_hit_num_blocks = {}
        /\ Len(req.dispatches) <= 1
        /\ req.pc \in {"dispatching", "done"} => Len(req.dispatches) = 1
        /\ \A i \in 1..Len(req.dispatches) :
             /\ req.dispatches[i].path = "static"
             /\ req.dispatches[i].request.estimated_prefix_hit_num_blocks = {}

\* A static-mode request has been dispatched while the index held blocks and
\* the fleet was known, so the KV-aware path had something to work with.
C1_Witness ==
    /\ IsPush("Static")
    /\ req.pc = "done"
    /\ Len(req.dispatches) = 1
    /\ req.request.token_ids # << >>
    /\ index # EmptyIndex
    /\ DOMAIN endpoints # {}

SelectionSucceeded ==
    /\ req.schedCalls # << >>
    /\ req.schedCalls[1].answer.ok

\* C2: in Dynamic mode, once the scheduler has selected a worker, the request
\* is dispatched exactly once, through the direct path, to the worker id the
\* scheduler answered, and the dispatched request already carries
\* estimated_prefix_hit_num_blocks.
C2_DynamicDispatchesToSelected ==
    (IsPush("Dynamic") /\ SelectionSucceeded) =>
        /\ Len(req.dispatches) = 1
        /\ req.dispatches[1].path = "direct"
        /\ req.dispatches[1].instance_id = req.schedCalls[1].answer.worker
        /\ Cardinality(req.dispatches[1].request.estimated_prefix_hit_num_blocks) = 1
        /\ Len(req.schedCalls) = 1

\* A dynamic-mode request went to worker 2 while worker 1 was known as well.
C2_Witness ==
    /\ IsPush("Dynamic")
    /\ req.pc = "done"
    /\ req.result = "Ok"
    /\ SelectionSucceeded
    /\ req.dispatches[1].instance_id = 2
    /\ DOMAIN endpoints = {1, 2}

\* C3: the stamped estimate is the selected worker's count in the overlap map
\* that was handed to the scheduler for this request, and 0 when that map has
\* no entry for the selected worker.
C3_StampIsSelectedOverlap ==
    (IsPush("Dynamic") /\ req.dispatches # << >>) =>
        LET call == req.schedCalls[1]
            w == call.answer.worker
        IN  req.dispatches[1].request.estimated_prefix_hit_num_blocks =
                { IF w \in DOMAIN call.overlap_scores
                  THEN call.overlap_scores[w]
                  ELSE 0 }

\* The selected worker is absent from a non-empty overlap map, is stamped 0,
\* and the index no longer answers the query as it did for this request.
C3_Witness ==
    /\ IsPush("Dynamic")
    /\ req.pc = "dispatching"
    /\ req.dispatches # << >>
    /\ DOMAIN req.schedCalls[1].overlap_scores # {}
    /\ req.schedCalls[1].answer.worker \notin DOMAIN req.schedCalls[1].overlap_scores
    /\ req.dispatches[1].request.estimated_prefix_hit_num_blocks = {0}
    /\ FindMatches(index, req.hashes) # req.schedCalls[1].overlap_scores

Items == req.yielded \o req.stream

\* C4: a successful KvRouter::generate returns a stream of exactly one item,
\* which carries the worker id the scheduler chose; the stream ends after it,
\* having yielded that one item.
C4_StreamOfOne ==
    (req.api = "generate" /\ req.result = "Ok") =>
        /\ Len(Items) = 1
        /\ Items[1].worker_id = req.schedCalls[1].answer.worker
        /\ req.streamEnded => (Len(req.yielded) = 1 /\ req.stream = << >>)

\* The caller has read the one item, of worker 2, and seen the stream end.
C4_Witness ==
    /\ req.api = "generate"
    /\ req.result = "Ok"
    /\ req.streamEnded
    /\ Len(req.yielded) = 1
    /\ req.yielded[1].worker_id = 2

IsWellFormed(p) == Decode(p).ok

\* The events of the well-formed payloads of a log, in the log's order.
ValidEvents(log) ==
    LET good == SelectSeq(log, IsWellFormed)
    IN  [i \in 1..Len(good) |-> Decode(good[i]).event]

Malformed(log) == {i \in 1..Len(log) : ~IsWellFormed(log[i])}

\* The events the task has passed to kv_events_tx.send, and the one it holds.
Handed ==
    [i \in 1..Len(sendLog) |-> sendLog[i].event]
        \o (IF taskPc = "send" THEN << event >> ELSE << >>)

\* C5: the events the forwarding task hands to the indexer are exactly the
\* well-formed payloads it received, in order; each malformed payload is
\* logged and skipped, and the task ends only when the subscription has ended
\* and is drained, never because of a payload.
C5_MalformedSkipped ==
    /\ Handed = ValidEvents(recvLog)
    /\ warns = Cardinality(Malformed(recvLog))
    /\ taskPc = "exited" => (subClosed /\ kv_events_rx = << >>)

\* A well-formed payload received after a malformed one has been sent.
C5_Witness ==
    \E i \in 1..Len(sendLog) :
        /\ sendLog[i].ok
        /\ \E j \in Malformed(recvLog) : j < sendLog[i].idx

\* The events that reached the indexer's channel, oldest first.
Forwarded == appliedLog \o kv_events_tx

\* C6: events of one worker reach the indexer's channel in the order they
\* were received from the subscription, each is the event received at its
\* position, and no received event is sent twice.
C6_PerWorkerOrder ==
    /\ \A i, j \in 1..Len(Forwarded) :
         (i < j /\ Forwarded[i].event.worker_id = Forwarded[j].event.worker_id)
             => Forwarded[i].idx < Forwarded[j].idx
    /\ \A i \in 1..Len(Forwarded) :
         /\ Forwarded[i].idx \in 1..Len(recvLog)
         /\ IsWellFormed(recvLog[Forwarded[i].idx])
         /\ Forwarded[i].event = Decode(recvLog[Forwarded[i].idx]).event
    /\ \A i, j \in 1..Len(sendLog) : i < j => sendLog[i].idx < sendLog[j].idx

\* Two events of worker 1 wait in the channel together, behind one another.
C6_Witness ==
    /\ Len(kv_events_tx) >= 2
    /\ kv_events_tx[1].event.worker_id = 1
    /\ kv_events_tx[2].event.worker_id = 1
    /\ kv_events_tx[1].event # kv_events_tx[2].event

SchedulerFailed ==
    /\ req.schedCalls # << >>
    /\ ~req.schedCalls[1].answer.ok

\* C7: when the scheduler fails for a KvRouter::schedule or
\* KvRouter::generate call, the call ends with the scheduler's failure: no
\* worker id, no response item, one scheduler call, nothing dispatched.
C7_SchedulerFailureSurfaces ==
    (req.api \in {"schedule", "generate"} /\ SchedulerFailed) =>
        /\ req.pc = "done"
        /\ req.result = "Err:scheduler"
        /\ req.worker_id = 0
        /\ Items = << >>
        /\ Len(req.schedCalls) = 1
        /\ req.dispatches = << >>

\* The caller's selector rejected every worker of a known fleet.
C7_Witness ==
    /\ req.api = "generate"
    /\ SchedulerFailed
    /\ req.schedCalls[1].answer.error = "selector"
    /\ DOMAIN endpoints = {1, 2}

TasksExited ==
    /\ aggTask \in {"none", "exited"}
    /\ idxTask \in {"none", "exited"}
    /\ taskPc \in {"none", "exited"}

\* C8: once the cancellation token is cancelled, every background task that
\* KvRouter::new started, the event-forwarding task included, eventually
\* exits.
C8_TasksExitOnCancel == (cancelled /\ ctorPc = "ready") ~> TasksExited

\* C9: without a primary lease KvRouter::new panics before it creates
\* anything: no router value, no metrics aggregator, no indexer, no scheduler,
\* no subscription, no forwarding task.
C9_NoLeaseNoRouter ==
    ~has_lease =>
        /\ ctorPc \in {"start", "panicked"}
        /\ made = {}
        /\ aggTask = "none"
        /\ idxTask = "none"
        /\ taskPc = "none"
        /\ kv_events_rx = << >>

\* Construction against a runtime with no lease has panicked.
C9_Witness == ~has_lease /\ ctorPc = "panicked"

\* A step in which kv_events_tx.send fails: its receiver has gone.
SendFails ==
    /\ taskPc = "send"
    /\ idxTask # "running"
    /\ Len(sendLog') = Len(sendLog) + 1

\* C10: a failed send to the indexer's channel is logged at debug level and
\* nothing more: the task goes on to the next event without panicking, the
\* event is dropped, and neither the router nor any request sees the failure.
C10_SendFailureContained ==
    [][SendFails =>
          /\ taskPc' = "recv"
          /\ debugs' = debugs + 1
          /\ ~sendLog'[Len(sendLog')].ok
          /\ UNCHANGED << ctorVars, envVars, idxVars, cfgVars, auxVars, routeVars >>]_vars

\* A send has failed and the task is back at waiting for the next event.
C10_Witness ==
    /\ taskPc = "recv"
    /\ debugs >= 1
    /\ \E i \in 1..Len(sendLog) : ~sendLog[i].ok

RouterPath == req.api = "generate" \/ IsPush("Dynamic")

\* C11: the hash sequence find_best_match sends to the indexer for a request
\* of n tokens and block size b has floor(n/b) entries, the k-th being the
\* hash of the k-th complete block; the trailing partial block adds none, and
\* a request with an empty query still goes to the scheduler.
C11_CompleteBlocksOnly ==
    (RouterPath /\ req.indexerCalls = 1) =>
        LET tokens == req.submitted.token_ids
            n == Len(tokens)
            b == block_size
            h == req.hashes
        IN  /\ Len(h) * b <= n
            /\ n < (Len(h) + 1) * b
            /\ \A k \in 1..Len(h) :
                 h[k] = BlockHash(SubSeq(tokens, (k - 1) * b + 1, k * b), Seed)
            /\ (req.pc \in {"dispatching", "done"} /\ req.result # "Err:indexer")
                 => Len(req.schedCalls) = 1

\* A request shorter than one block was queried with no hash and scheduled.
C11_Witness ==
    /\ req.api = "generate"
    /\ Len(req.submitted.token_ids) = 1
    /\ block_size = 2
    /\ req.indexerCalls = 1
    /\ req.hashes = << >>
    /\ req.result = "Ok"

\* A step in which the indexer answers a query.
QueryAnswered == req.pc = "start" /\ req'.pc = "matched"

\* C15: the overlap the indexer returns for a worker is the length of the
\* longest prefix of the query whose hashes the worker holds: every hash of
\* that prefix is cached, the next one is not, and hashes cached beyond the
\* first gap do not count.
C15_PrefixOverlap ==
    [][QueryAnswered =>
          \A w \in Workers :
              LET h == req'.hashes
                  n == IF w \in DOMAIN req'.overlap_scores
                       THEN req'.overlap_scores[w]
                       ELSE 0
              IN  /\ n \in 0..Len(h)
                  /\ \A i \in 1..n : h[i] \in index[w]
                  /\ n < Len(h) => h[n + 1] \notin index[w]]_vars

\* A worker scores 1 on a three-block query whose second block it lacks and
\* whose third block it holds.
C15_Witness ==
    /\ req.pc = "matched"
    /\ Len(req.hashes) = 3
    /\ FindMatches(index, req.hashes) = req.overlap_scores
    /\ \E w \in DOMAIN req.overlap_scores :
         /\ req.overlap_scores[w] = 1
         /\ req.hashes[2] \notin index[w]
         /\ req.hashes[3] \in index[w]

\* C17: in Dynamic mode a failed indexer query or a failed scheduler call is
\* the push router's result: nothing is dispatched on either path, nothing is
\* stamped, neither call is repeated, and after a failed indexer query the
\* scheduler is not called.
C17_DynamicFailureNoDispatch ==
    IsPush("Dynamic") =>
        /\ req.indexerCalls <= 1
        /\ Len(req.schedCalls) <= 1
        /\ (req.pc = "done" /\ req.schedCalls = << >>) => req.result = "Err:indexer"
        /\ req.result = "Err:indexer" =>
             /\ req.schedCalls = << >>
             /\ req.dispatches = << >>
             /\ req.request.estimated_prefix_hit_num_blocks = {}
        /\ SchedulerFailed =>
             /\ req.pc = "done"
             /\ req.result = "Err:scheduler"
             /\ req.dispatches = << >>
             /\ req.request.estimated_prefix_hit_num_blocks = {}

\* The indexer query of a dynamic-mode request failed while both workers were
\* known to the scheduler.
C17_Witness ==
    /\ IsPush("Dynamic")
    /\ req.result = "Err:indexer"
    /\ DOMAIN endpoints = {1, 2}

\* C18: the request the push router hands to direct differs from the one it
\* was given in estimated_prefix_hit_num_blocks only: same token ids, same
\* other fields, same context.
C18_OnlyEstimateChanges ==
    (IsPush("Dynamic") /\ req.dispatches # << >>) =>
        LET d == req.dispatches[1]
        IN  /\ d.request.token_ids = req.submitted.token_ids
            /\ d.request.rest = req.submitted.rest
            /\ [d.request EXCEPT !.estimated_prefix_hit_num_blocks = {}] = req.submitted
            /\ d.context = "ctx"

\* A three-token request with a trailing partial block was stamped 1 and sent.
C18_Witness ==
    /\ IsPush("Dynamic")
    /\ req.pc = "done"
    /\ block_size = 2
    /\ Len(req.submitted.token_ids) = 3
    /\ req.dispatches # << >>
    /\ req.dispatches[1].request.estimated_prefix_hit_num_blocks = {1}

\* C19: the stamped estimate never exceeds the number of complete blocks of
\* the request, floor(n/b).
C19_EstimateWithinBlocks ==
    (IsPush("Dynamic") /\ req.dispatches # << >>) =>
        \A e \in req.dispatches[1].request.estimated_prefix_hit_num_blocks :
            /\ e >= 0
            /\ e * block_size <= Len(req.submitted.token_ids)

\* Every complete block of a two-token request is a predicted hit.
C19_Witness ==
    /\ IsPush("Dynamic")
    /\ req.dispatches # << >>
    /\ block_size = 2
    /\ Len(req.submitted.token_ids) = 2
    /\ req.dispatches[1].request.estimated_prefix_hit_num_blocks = {1}

\* C12: KvRouterConfig::new settles each weight on its own: a supplied value
\* is stored as it is, an unset one becomes that weight's default, whatever
\* the other two arguments are.
C12_WeightsDefaultIndependently ==
    config.via = "new" =>
        /\ \A v \in weight_args.overlap : config.weights.overlap_score_weight = v
        /\ \A v \in weight_args.gpu : config.weights.gpu_cache_usage_weight = v
        /\ \A v \in weight_args.waiting : config.weights.waiting_requests_weight = v
        /\ weight_args.overlap = {} =>
             config.weights.overlap_score_weight = overlap_score_weight
        /\ weight_args.gpu = {} =>
             config.weights.gpu_cache_usage_weight = gpu_cache_usage_weight
        /\ weight_args.waiting = {} =>
             config.weights.waiting_requests_weight = waiting_requests_weight

\* Only the middle weight was supplied: it is kept, the other two default.
C12_Witness ==
    /\ config.via = "new"
    /\ weight_args = [overlap |-> {}, gpu |-> {3}, waiting |-> {}]
    /\ config.weights.gpu_cache_usage_weight = 3

BuiltFromDefaults ==
    \/ config.via = "default"
    \/ config.via = "new" /\ weight_args = NoWeightArgs

\* C13: the default configuration has the weights the field documentation
\* states: overlap 2.0, cache usage 1.0, waiting requests 1.0.
C13_DocumentedDefaults ==
    BuiltFromDefaults =>
        /\ config.weights.overlap_score_weight = documented_overlap_score_weight
        /\ config.weights.gpu_cache_usage_weight = documented_gpu_cache_usage_weight
        /\ config.weights.waiting_requests_weight = documented_waiting_requests_weight

ViaFindBestMatch(api, src) ==
    api = "generate" \/ (api = "push" /\ PushPath(src) = "kv")

\* A call has returned while the one before it, on the same tokens, index and
\* snapshot, is remembered.
Repeated == req.pc = "done" /\ prev.api # "none"

====
